---- MODULE Spec2Model ----
(***************************************************************************)
(* Stream Deck plugin that polls the status of a GitHub Actions workflow   *)
(* per visible key (src/plugin.ts, src/github-api.ts, src/types.ts).       *)
(*                                                                         *)
(* One action of the model is one run-to-completion callback of the Node   *)
(* event loop: a websocket message handler, a setInterval callback, or the *)
(* continuation of refreshStatus after its await.                          *)
(***************************************************************************)
EXTENDS Bags, FiniteSets, Integers, Sequences, TLC

(***************************************************************************)
(* Bounds of the model.                                                    *)
(***************************************************************************)
MaxTimers == 2      \* timers live at one time, all keys together
MaxInFlight == 2    \* refreshes suspended at the await, all keys together
\* The largest refresh interval, in seconds and in absolute value, that the
\* timer specification tries.
MaxInterval == 62

(***************************************************************************)
(* Program constants.                                                      *)
(***************************************************************************)
LONG_PRESS_THRESHOLD == 500
DEFAULT_REFRESH_INTERVAL == 60
MS_PER_SECOND == 1000

\* `refreshTimer?` and `keyDownTime?` of ActionInstance when undefined.
NoTimer == 0
NoTime == 0 - 1

\* The contexts the host uses.
Keys == {"k1"}
WorkflowStatus == {"success", "failure", "pending", "unknown"}

\* Readings of Date.now(): one at a press, and at a release the ones that
\* lie 0, 499, 500 and 501 ms after it.
PressTimes == {2 * LONG_PRESS_THRESHOLD}
ReleaseTimes ==
    {t + d : t \in PressTimes,
             d \in {0, LONG_PRESS_THRESHOLD - 1, LONG_PRESS_THRESHOLD,
                    LONG_PRESS_THRESHOLD + 1}}

(***************************************************************************)
(* ActionSettings values the host can deliver.                             *)
(***************************************************************************)
ActionSettings(token, owner, repo, workflow, interval) ==
    [githubToken |-> token, owner |-> owner, repo |-> repo,
     workflow |-> workflow, refreshInterval |-> interval]

getDefaultSettings == ActionSettings("", "", "", "", DEFAULT_REFRESH_INTERVAL)

SettingsPool ==
    { ActionSettings("tokA", "acme", "widgets", "", 30),
      ActionSettings("tokB", "acme", "gadgets", "ci.yml", 0),
      ActionSettings("", "acme", "widgets", "", 60),
      ActionSettings("tokA", "", "widgets", "", 60),
      ActionSettings("tokA", "acme", "", "", 60) }

\* payload.settings of willAppear: <<s>> when present, <<>> when absent.
WillAppearPayload == {<<>>} \cup {<<s>> : s \in SettingsPool}

\* JavaScript truthiness of a string and of a number.
TruthyStr(s) == s # ""
TruthyNum(n) == n # 0

(***************************************************************************)
(* State.                                                                  *)
(***************************************************************************)
VARIABLES
    wsState,      \* readyState of the websocket
    imagesCache,  \* statuses whose image loadImages() could read
    actions,      \* Map<string, ActionInstance>: a function on the present keys
    timers,       \* live setInterval timers: [id, context, period]
    inflight,     \* bag of refreshStatus calls suspended at the await
    appeared,     \* history: keys whose willAppear is not yet matched by a willDisappear
    last,         \* history: the callback that ran in the last step
    eff,          \* history: what the last step called and sent, in order
    displayed,    \* history: per key, the url of the result last displayed
    probe,        \* input of the classifier, of the fetch and of the timer on their own
    verdict       \* what the classifier or the fetch returned for it

vars == <<wsState, imagesCache, actions, timers, inflight,
          appeared, last, eff, displayed, probe, verdict>>

(***************************************************************************)
(* What a step calls and sends, in order.  The ops "register", "setImage", *)
(* "setTitle" and "openUrl" are frames written to the websocket; the       *)
(* others record a call.                                                   *)
(***************************************************************************)
Eff(op, context, a, b) == [op |-> op, context |-> context, a |-> a, b |-> b]

\* The part of the state a callback works on, threaded through its calls.
Machine ==
    [actions |-> actions, timers |-> timers, inflight |-> inflight,
     eff |-> <<>>]

Log(st, e) == [st EXCEPT !.eff = Append(@, e)]

\* send(): the frame is written only while the socket is open.
send(st, e) == IF wsState = "OPEN" THEN Log(st, e) ELSE st

\* updateDisplay: the image frame goes out only when the status has a cached
\* image; the title frame always. (The variant of the plugin that draws the
\* image itself always has one: that is imagesCache = WorkflowStatus.)
updateDisplay(st, context, status, title) ==
    LET called == Log(st, Eff("updateDisplay", context, status, title))
        imaged == IF status \in imagesCache
                  THEN send(called, Eff("setImage", context, status, ""))
                  ELSE called
    IN  send(imaged, Eff("setTitle", context, title, ""))

\* A variant without the case of failure.
formatStatusText_noFailure(status) ==
    CASE status = "success" -> "Success"
      [] status = "pending" -> "Running"
      [] OTHER -> "Unknown"

formatStatusText(status) ==
    CASE status = "success" -> "Success"
      [] status = "failure" -> "Failed"
      [] status = "pending" -> "Running"
      [] OTHER -> "Unknown"

\* A variant that tests the token alone.
SettingsMissing_tokenOnly(settings) == ~TruthyStr(settings.githubToken)

\* `!githubToken || !owner || !repo`
SettingsMissing(settings) ==
    \/ ~TruthyStr(settings.githubToken)
    \/ ~TruthyStr(settings.owner)
    \/ ~TruthyStr(settings.repo)

\* The settings values of the pool that pass that test.
CompleteSettings == {s \in SettingsPool : ~SettingsMissing(s)}

\* A refreshStatus call suspended at `await fetchWorkflowStatus(...)`, with
\* the arguments it passed.  stale is history: the settings of the session
\* were replaced by didReceiveSettings after the fetch was issued.
Request(context, settings) ==
    [context |-> context, githubToken |-> settings.githubToken,
     owner |-> settings.owner, repo |-> settings.repo,
     workflow |-> settings.workflow, stale |-> FALSE]

\* A variant that issues the fetch without the "Loading..." update.
refreshStatus_noLoading(st, context) ==
    LET called == Log(st, Eff("refreshStatus", context, "", ""))
    IN  IF context \notin DOMAIN st.actions THEN called
        ELSE LET settings == st.actions[context].settings
             IN  IF SettingsMissing(settings)
                 THEN updateDisplay(called, context, "unknown", "Configure")
                 ELSE LET req == Request(context, settings)
                      IN  [Log(called, Eff("fetch", context, req, ""))
                             EXCEPT !.inflight = @ (+) SetToBag({req})]

\* refreshStatus up to its await.
refreshStatus(st, context) ==
    LET called == Log(st, Eff("refreshStatus", context, "", ""))
    IN  IF context \notin DOMAIN st.actions THEN called
        ELSE LET settings == st.actions[context].settings
             IN  IF SettingsMissing(settings)
                 THEN updateDisplay(called, context, "unknown", "Configure")
                 ELSE LET loading == updateDisplay(called, context, "pending", "Loading...")
                          req == Request(context, settings)
                      IN  [Log(loading, Eff("fetch", context, req, ""))
                             EXCEPT !.inflight = @ (+) SetToBag({req})]

\* `(instance.settings.refreshInterval || 60) * 1000`
TimerInterval(settings) ==
    (IF TruthyNum(settings.refreshInterval)
     THEN settings.refreshInterval ELSE DEFAULT_REFRESH_INTERVAL) * MS_PER_SECOND

\* The handle setInterval returns: one no live timer has.
NewHandle(live) ==
    CHOOSE id \in 1..(Cardinality(live) + 1) :
        /\ \A t \in live : t.id # id
        /\ \A other \in 1..(id - 1) : \E t \in live : t.id = other

startRefreshTimer(st, context) ==
    IF context \notin DOMAIN st.actions THEN st
    ELSE LET interval == TimerInterval(st.actions[context].settings)
             timer == [id |-> NewHandle(st.timers), context |-> context,
                       period |-> interval]
         IN  Log([st EXCEPT !.actions[context].refreshTimer = timer.id,
                            !.timers = @ \cup {timer}],
                 Eff("setInterval", context, timer.id, interval))

clearInterval(st, context, id) ==
    Log([st EXCEPT !.timers = {t \in @ : t.id # id}],
        Eff("clearInterval", context, id, ""))

stopRefreshTimer(st, context) ==
    IF context \in DOMAIN st.actions /\ st.actions[context].refreshTimer # NoTimer
    THEN [clearInterval(st, context, st.actions[context].refreshTimer)
            EXCEPT !.actions[context].refreshTimer = NoTimer]
    ELSE st

\* Map.set and Map.delete
MapSet(map, key, value) ==
    [k \in DOMAIN map \cup {key} |-> IF k = key THEN value ELSE map[k]]
MapDelete(map, key) == [k \in DOMAIN map \ {key} |-> map[k]]

RepoActionsUrl(owner, repo) ==
    "https://github.com/" \o owner \o "/" \o repo \o "/actions"

openGitHub(st, instance) ==
    LET base == RepoActionsUrl(instance.settings.owner, instance.settings.repo)
        url == IF TruthyStr(instance.settings.workflow)
               THEN base \o "/workflows/" \o instance.settings.workflow
               ELSE base
    IN  send(st, Eff("openUrl", "", url, ""))

\* A variant with a strict comparison.
IsLongPress_strict(pressDuration) == pressDuration > LONG_PRESS_THRESHOLD

\* `pressDuration >= LONG_PRESS_THRESHOLD`
IsLongPress(pressDuration) == pressDuration >= LONG_PRESS_THRESHOLD

\* `Date.now() - (instance.keyDownTime || 0)`
PressDuration(instance, dateNow) ==
    dateNow - (IF instance.keyDownTime # NoTime /\ TruthyNum(instance.keyDownTime)
           THEN instance.keyDownTime ELSE 0)

(***************************************************************************)
(* github-api.ts.  What the provider does with one request:                *)
(*   kind "error"    the request emits 'error'                             *)
(*   kind "timeout"  the 10 s request timeout expires                      *)
(*   kind "response" a response ends with statusCode and body              *)
(* A body either fails JSON.parse or parses to an object with total_count  *)
(* and, when hasRuns, the list workflow_runs.                              *)
(***************************************************************************)
Null == "<null>"

WorkflowRun(status, conclusion) ==
    [name |-> "CI", status |-> status, conclusion |-> conclusion,
     html_url |-> "https://github.com/acme/widgets/actions/runs/7",
     head_branch |-> "main"]

Body(parses, total, hasRuns, runs) ==
    [parses |-> parses, total_count |-> total, hasRuns |-> hasRuns,
     workflow_runs |-> runs]

Answer(kind, statusCode, message, body) ==
    [kind |-> kind, statusCode |-> statusCode, message |-> message, body |-> body]

NoBody == Body(FALSE, 0, FALSE, <<>>)
Response(statusCode, body) == Answer("response", statusCode, "", body)

\* What a run list can hold: a first run in each class of mapGitHubStatus.
LatestRuns ==
    { WorkflowRun("completed", "success"), WorkflowRun("completed", "failure"),
      WorkflowRun("completed", "neutral"), WorkflowRun("in_progress", Null) }

\* Bodies that parse: total_count 0, 1 or 2 with no workflow_runs member, an
\* empty list, or a list headed by one of LatestRuns.
ParsedBodies ==
    { Body(TRUE, total, FALSE, <<>>) : total \in 0..2 }
    \cup { Body(TRUE, total, TRUE, <<>>) : total \in 0..2 }
    \cup { Body(TRUE, total, TRUE, <<run>>) : total \in 0..2, run \in LatestRuns }

ProviderAnswers ==
    { Answer("error", 0, "ECONNRESET", NoBody),
      Answer("error", 0, "getaddrinfo ENOTFOUND api.github.com", NoBody),
      Answer("timeout", 0, "", NoBody),
      Response(200, NoBody) }
    \cup { Response(statusCode, NoBody) : statusCode \in {301, 401, 403, 404, 500, 503} }
    \cup { Response(200, body) : body \in ParsedBodies }

\* The answers the refreshes of the session model receive.
RefreshAnswers ==
    { Answer("error", 0, "ECONNRESET", NoBody),
      Response(200, Body(TRUE, 0, TRUE, <<>>)),
      Response(200, Body(TRUE, 1, TRUE, <<WorkflowRun("completed", "success")>>)),
      Response(200, Body(TRUE, 1, TRUE, <<WorkflowRun("completed", "failure")>>)),
      Response(200, Body(TRUE, 1, TRUE, <<WorkflowRun("completed", "neutral")>>)),
      Response(200, Body(TRUE, 1, TRUE, <<WorkflowRun("in_progress", Null)>>)) }

\* A variant that forgets the `cancelled` and `timed_out` cases.
mapGitHubStatus_failureOnly(status, conclusion) ==
    IF status = "completed"
    THEN CASE conclusion = "success" -> "success"
           [] conclusion = "failure" -> "failure"
           [] OTHER -> "unknown"
    ELSE IF status \in {"in_progress", "queued", "pending", "waiting"}
         THEN "pending"
         ELSE "unknown"

mapGitHubStatus(status, conclusion) ==
    IF status = "completed"
    THEN CASE conclusion = "success" -> "success"
           [] conclusion \in {"failure", "cancelled", "timed_out"} -> "failure"
           [] OTHER -> "unknown"
    ELSE IF status \in {"in_progress", "queued", "pending", "waiting"}
         THEN "pending"
         ELSE "unknown"

\* The promise of getWorkflowRuns: resolved with the parsed body or rejected
\* with an Error carrying message.
Resolved(runs) == [ok |-> TRUE, runs |-> runs, message |-> ""]
Rejected(message) == [ok |-> FALSE, runs |-> NoBody, message |-> message]

\* A variant without the 401 and 404 cases.
getWorkflowRuns_genericOnly(answer) ==
    CASE answer.kind = "error" -> Rejected("Network error: " \o answer.message)
      [] answer.kind = "timeout" -> Rejected("Request timeout")
      [] OTHER ->
           IF answer.statusCode = 200
           THEN IF answer.body.parses
                THEN Resolved(answer.body)
                ELSE Rejected("Failed to parse GitHub response")
           ELSE Rejected("GitHub API error: " \o ToString(answer.statusCode))

getWorkflowRuns(answer) ==
    CASE answer.kind = "error" -> Rejected("Network error: " \o answer.message)
      [] answer.kind = "timeout" -> Rejected("Request timeout")
      [] OTHER ->
           IF answer.statusCode = 200
           THEN IF answer.body.parses
                THEN Resolved(answer.body)
                ELSE Rejected("Failed to parse GitHub response")
           ELSE IF answer.statusCode = 401
                THEN Rejected("Invalid GitHub token")
                ELSE IF answer.statusCode = 404
                     THEN Rejected("Repository or workflow not found")
                     ELSE Rejected("GitHub API error: " \o ToString(answer.statusCode))

\* WorkflowStatusResult; error "" stands for an absent error.
WorkflowStatusResult(status, name, url, branch, error) ==
    [status |-> status, name |-> name, url |-> url, branch |-> branch,
     error |-> error]

\* A variant that tests total_count alone: an empty list with a non-zero
\* total_count then fails on its first element.
fetchWorkflowStatus_totalCountOnly(token, owner, repo, workflow, answer) ==
    LET promise == getWorkflowRuns(answer)
        runs == promise.runs
        caught(message) ==
            WorkflowStatusResult("unknown", "Error", RepoActionsUrl(owner, repo),
                                 "", message)
    IN  IF ~promise.ok THEN caught(promise.message)
        ELSE IF runs.total_count = 0
             THEN WorkflowStatusResult(
                      "unknown",
                      IF TruthyStr(workflow) THEN workflow ELSE "No runs",
                      RepoActionsUrl(owner, repo), "", "No workflow runs found")
             ELSE IF ~runs.hasRuns \/ Len(runs.workflow_runs) = 0
                  THEN caught("Cannot read properties of undefined")
                  ELSE LET latestRun == runs.workflow_runs[1]
                       IN  WorkflowStatusResult(
                               mapGitHubStatus(latestRun.status, latestRun.conclusion),
                               latestRun.name, latestRun.html_url,
                               latestRun.head_branch, "")

fetchWorkflowStatus(token, owner, repo, workflow, answer) ==
    LET promise == getWorkflowRuns(answer)
        runs == promise.runs
        caught(message) ==
            WorkflowStatusResult("unknown", "Error", RepoActionsUrl(owner, repo),
                                 "", message)
    IN  IF ~promise.ok THEN caught(promise.message)
        ELSE IF runs.total_count = 0
                \/ (runs.hasRuns /\ Len(runs.workflow_runs) = 0)
             THEN WorkflowStatusResult(
                      "unknown",
                      IF TruthyStr(workflow) THEN workflow ELSE "No runs",
                      RepoActionsUrl(owner, repo), "", "No workflow runs found")
             ELSE IF ~runs.hasRuns
                  THEN caught("Cannot read properties of undefined (reading 'length')")
                  ELSE LET latestRun == runs.workflow_runs[1]
                       IN  WorkflowStatusResult(
                               mapGitHubStatus(latestRun.status, latestRun.conclusion),
                               latestRun.name, latestRun.html_url,
                               latestRun.head_branch, "")

\* A variant that titles every result by its status, an error or not.
refreshStatusResume_statusTextOnly(st, context, result) ==
    updateDisplay(st, context, result.status, formatStatusText(result.status))

\* refreshStatus from the point where its await resumes.
refreshStatusResume(st, context, result) ==
    LET displayText == IF TruthyStr(result.error)
                       THEN "Error"
                       ELSE formatStatusText(result.status)
    IN  updateDisplay(st, context, result.status, displayText)

(***************************************************************************)
(* The handlers of plugin.ts, each on the threaded machine state.          *)
(***************************************************************************)
ActionInstance(context, settings) ==
    [context |-> context, settings |-> settings,
     refreshTimer |-> NoTimer, keyDownTime |-> NoTime]

\* A variant that leaves the first refresh to the timer.
handleWillAppear_timerOnly(st, context, payload) ==
    LET settings == IF payload # <<>> THEN payload[1] ELSE getDefaultSettings
        instance == ActionInstance(context, settings)
        stored == [st EXCEPT !.actions = MapSet(@, context, instance)]
    IN  startRefreshTimer(stored, context)

handleWillAppear(st, context, payload) ==
    LET settings == IF payload # <<>> THEN payload[1] ELSE getDefaultSettings
        instance == ActionInstance(context, settings)
        stored == [st EXCEPT !.actions = MapSet(@, context, instance)]
    IN  refreshStatus(startRefreshTimer(stored, context), context)

\* A variant that clears the timers of every key.
handleWillDisappear_clearAll(st, context) ==
    [st EXCEPT !.timers = {},
               !.actions = [k \in DOMAIN st.actions \ {context} |->
                               [st.actions[k] EXCEPT !.refreshTimer = NoTimer]]]

handleWillDisappear(st, context) ==
    LET cleared == IF context \in DOMAIN st.actions
                      /\ st.actions[context].refreshTimer # NoTimer
                   THEN clearInterval(st, context, st.actions[context].refreshTimer)
                   ELSE st
    IN  [cleared EXCEPT !.actions = MapDelete(@, context)]

handleKeyDown(st, context, dateNow) ==
    IF context \in DOMAIN st.actions
    THEN [st EXCEPT !.actions[context].keyDownTime = dateNow]
    ELSE st

handleKeyUp(st, context, dateNow) ==
    IF context \notin DOMAIN st.actions THEN st
    ELSE LET instance == st.actions[context]
             pressDuration == PressDuration(instance, dateNow)
             handled == IF IsLongPress(pressDuration)
                        THEN openGitHub(st, instance)
                        ELSE refreshStatus(st, context)
         IN  [handled EXCEPT !.actions[context].keyDownTime = NoTime]

\* A variant that creates the session when the key has none.
handleDidReceiveSettings_upsert(st, context, settings) ==
    LET held == IF context \in DOMAIN st.actions THEN st.actions[context]
                ELSE ActionInstance(context, settings)
        swapped == [st EXCEPT !.actions =
                       MapSet(@, context, [held EXCEPT !.settings = settings])]
    IN  refreshStatus(
            startRefreshTimer(stopRefreshTimer(swapped, context), context),
            context)

\* A variant that refreshes before it stores the new settings.
handleDidReceiveSettings_refreshFirst(st, context, settings) ==
    IF context \in DOMAIN st.actions
    THEN LET refreshed == refreshStatus(st, context)
             swapped == [refreshed EXCEPT !.actions[context].settings = settings]
         IN  startRefreshTimer(stopRefreshTimer(swapped, context), context)
    ELSE st

handleDidReceiveSettings(st, context, settings) ==
    IF context \in DOMAIN st.actions
    THEN LET swapped == [st EXCEPT !.actions[context].settings = settings]
         IN  refreshStatus(
                 startRefreshTimer(stopRefreshTimer(swapped, context), context),
                 context)
    ELSE st

(***************************************************************************)
(* History kept for the properties.                                        *)
(***************************************************************************)
\* The callback of the last step: which one, for which key, whether the key
\* was in the map and what its keyDownTime and refreshTimer were when the
\* callback began, and its input.
Callback(event, context, detail) ==
    [event |-> event, context |-> context,
     present |-> context \in DOMAIN actions,
     keyDownTime |-> IF context \in DOMAIN actions
                     THEN actions[context].keyDownTime ELSE NoTime,
     refreshTimer |-> IF context \in DOMAIN actions
                      THEN actions[context].refreshTimer ELSE NoTimer,
     detail |-> detail]

\* The requests of one key become stale when its settings are replaced.
MarkStale(bag, context) ==
    LET held == BagToSet(bag)
        mark(r) == IF r.context = context THEN [r EXCEPT !.stale = TRUE] ELSE r
        fresh(r) == [r EXCEPT !.stale = FALSE]
        count(r) == IF r \in held THEN bag[r] ELSE 0
    IN  [r \in {mark(q) : q \in held} |->
            IF r.context = context THEN count(r) + count(fresh(r)) ELSE count(r)]

\* The url of the WorkflowStatusResult each key's display showed last, ""
\* when its session has shown none: a resumed refreshStatus displays its
\* result, and a willAppear or willDisappear begins or ends a session.
Displayed(callback) ==
    CASE callback.event = "fetchResolved" ->
           LET request == callback.detail.request
               result == fetchWorkflowStatus(request.githubToken, request.owner,
                                             request.repo, request.workflow,
                                             callback.detail.answer)
           IN  [displayed EXCEPT ![callback.context] = result.url]
      [] callback.event \in {"willAppear", "willDisappear"} ->
           [displayed EXCEPT ![callback.context] = ""]
      [] OTHER -> displayed

\* One callback ran to completion and left the machine in st.
Commit(st, callback) ==
    /\ Cardinality(st.timers) <= MaxTimers
    /\ BagCardinality(st.inflight) <= MaxInFlight
    /\ actions' = st.actions
    /\ timers' = st.timers
    /\ inflight' = st.inflight
    /\ eff' = st.eff
    /\ last' = callback
    /\ displayed' = Displayed(callback)
    /\ UNCHANGED <<imagesCache, probe, verdict>>

(***************************************************************************)
(* Actions.                                                                *)
(***************************************************************************)
\* ws.on('open'): the plugin registers itself.
WsOpen ==
    /\ wsState = "CONNECTING"
    /\ wsState' = "OPEN"
    /\ eff' = <<Eff("register", "", "", "")>>
    /\ last' = Callback("open", "", "")
    /\ UNCHANGED <<imagesCache, actions, timers, inflight, appeared,
                   displayed, probe, verdict>>

\* ws.on('close'): nothing but a log line; no message arrives afterwards.
WsClose ==
    /\ wsState \in {"CONNECTING", "OPEN"}
    /\ wsState' = "CLOSED"
    /\ eff' = <<>>
    /\ last' = Callback("close", "", "")
    /\ UNCHANGED <<imagesCache, actions, timers, inflight, appeared,
                   displayed, probe, verdict>>

WillAppear(context, payload) ==
    /\ wsState = "OPEN"
    /\ Commit(handleWillAppear(Machine, context, payload),
              Callback("willAppear", context, payload))
    /\ appeared' = appeared \cup {context}
    /\ UNCHANGED wsState

WillDisappear(context) ==
    /\ wsState = "OPEN"
    /\ Commit(handleWillDisappear(Machine, context),
              Callback("willDisappear", context, ""))
    /\ appeared' = appeared \ {context}
    /\ UNCHANGED wsState

KeyDown(context, dateNow) ==
    /\ wsState = "OPEN"
    /\ Commit(handleKeyDown(Machine, context, dateNow),
              Callback("keyDown", context, dateNow))
    /\ UNCHANGED <<wsState, appeared>>

KeyUp(context, dateNow) ==
    /\ wsState = "OPEN"
    /\ Commit(handleKeyUp(Machine, context, dateNow),
              Callback("keyUp", context, dateNow))
    /\ UNCHANGED <<wsState, appeared>>

DidReceiveSettings(context, settings) ==
    /\ wsState = "OPEN"
    /\ LET before == IF context \in DOMAIN actions
                     THEN [Machine EXCEPT !.inflight = MarkStale(@, context)]
                     ELSE Machine
       IN  Commit(handleDidReceiveSettings(before, context, settings),
                  Callback("didReceiveSettings", context, settings))
    /\ UNCHANGED <<wsState, appeared>>

\* The callback of a live setInterval timer.
TimerFire(timer) ==
    /\ timer \in timers
    /\ Commit(refreshStatus(Machine, timer.context),
              Callback("timerFire", timer.context, timer))
    /\ UNCHANGED <<wsState, appeared>>

\* The provider answers a request and the suspended refreshStatus resumes.
FetchResolve(request, answer) ==
    /\ BagIn(request, inflight)
    /\ LET result == fetchWorkflowStatus(request.githubToken, request.owner,
                                         request.repo, request.workflow, answer)
           resumed == [Machine EXCEPT !.inflight = @ (-) SetToBag({request})]
       IN  Commit(refreshStatusResume(resumed, request.context, result),
                  Callback("fetchResolved", request.context,
                           [request |-> request, answer |-> answer]))
    /\ UNCHANGED <<wsState, appeared>>

\* After `new StreamDeckPlugin()` and connect(): images loaded (each file may
\* fail to read), socket connecting, no instance.
Init ==
    /\ wsState = "CONNECTING"
    /\ imagesCache \in {WorkflowStatus, {}}
    /\ actions = <<>>
    /\ timers = {}
    /\ inflight = EmptyBag
    /\ appeared = {}
    /\ last = [event |-> "start", context |-> "", present |-> FALSE,
               keyDownTime |-> NoTime, refreshTimer |-> NoTimer, detail |-> ""]
    /\ eff = <<>>
    /\ displayed = [context \in Keys |-> ""]
    /\ probe = <<"", "">>
    /\ verdict = ""

Next ==
    \/ WsOpen
    \/ WsClose
    \/ \E context \in Keys, payload \in WillAppearPayload : WillAppear(context, payload)
    \/ \E context \in Keys : WillDisappear(context)
    \/ \E context \in Keys, dateNow \in PressTimes : KeyDown(context, dateNow)
    \/ \E context \in Keys, dateNow \in ReleaseTimes : KeyUp(context, dateNow)
    \/ \E context \in Keys, settings \in SettingsPool : DidReceiveSettings(context, settings)
    \/ \E timer \in timers : TimerFire(timer)
    \/ \E request \in BagToSet(inflight), answer \in RefreshAnswers :
          FetchResolve(request, answer)

Spec == Init /\ [][Next]_vars

(***************************************************************************)
(* The sessions under the assumption that every fetch settles: the request *)
(* of getWorkflowRuns ends with a response, an 'error' or its 10 s timeout, *)
(* so each suspended refreshStatus of a key and a settings value resumes.  *)
(***************************************************************************)
\* The requests a session can issue, as issued.
Requests == {Request(context, settings) : context \in Keys, settings \in CompleteSettings}

\* The suspended calls that carry the arguments of request r.
Suspended(r) == {q \in BagToSet(inflight) : [q EXCEPT !.stale = FALSE] = r}

Settle(r) == \E request \in Suspended(r), answer \in RefreshAnswers :
                 FetchResolve(request, answer)

\* The plugin that draws its images: every status has one.
InitLive == Init /\ imagesCache = WorkflowStatus

SpecLive == InitLive /\ [][Next]_vars /\ \A r \in Requests : WF_vars(Settle(r))

(***************************************************************************)
(* The classifier on its own: mapGitHubStatus applied to every pair of a   *)
(* run's status and conclusion.                                            *)
(***************************************************************************)
RunStatuses ==
    {"completed", "in_progress", "queued", "pending", "waiting", "requested",
     "action_required", ""}
RunConclusions ==
    {"success", "failure", "cancelled", "timed_out", "neutral", "skipped",
     "stale", "action_required", Null}

InitClassify ==
    /\ wsState = "CONNECTING"
    /\ imagesCache = WorkflowStatus
    /\ actions = <<>>
    /\ timers = {}
    /\ inflight = EmptyBag
    /\ appeared = {}
    /\ last = [event |-> "start", context |-> "", present |-> FALSE,
               keyDownTime |-> NoTime, refreshTimer |-> NoTimer, detail |-> ""]
    /\ eff = <<>>
    /\ displayed = [context \in Keys |-> ""]
    /\ probe \in RunStatuses \X RunConclusions
    /\ verdict = ""

Classify ==
    /\ verdict = ""
    /\ verdict' = mapGitHubStatus(probe[1], probe[2])
    /\ UNCHANGED <<wsState, imagesCache, actions, timers, inflight, appeared,
                   last, eff, displayed, probe>>

NextClassify == Classify

SpecClassify == InitClassify /\ [][NextClassify]_vars

(***************************************************************************)
(* The fetch on its own: fetchWorkflowStatus applied once to the request of *)
(* a complete settings value and one answer of the provider.               *)
(***************************************************************************)
InitFetch ==
    /\ wsState = "CONNECTING"
    /\ imagesCache = WorkflowStatus
    /\ actions = <<>>
    /\ timers = {}
    /\ inflight = EmptyBag
    /\ appeared = {}
    /\ last = [event |-> "start", context |-> "", present |-> FALSE,
               keyDownTime |-> NoTime, refreshTimer |-> NoTimer, detail |-> ""]
    /\ eff = <<>>
    /\ displayed = [context \in Keys |-> ""]
    /\ probe \in CompleteSettings \X ProviderAnswers
    /\ verdict = ""

Fetch ==
    /\ last.event = "start"
    /\ verdict' = fetchWorkflowStatus(probe[1].githubToken, probe[1].owner,
                                      probe[1].repo, probe[1].workflow, probe[2])
    /\ last' = [last EXCEPT !.event = "fetchWorkflowStatus"]
    /\ UNCHANGED <<wsState, imagesCache, actions, timers, inflight, appeared,
                   eff, displayed, probe>>

NextFetch == Fetch

SpecFetch == InitFetch /\ [][NextFetch]_vars

(***************************************************************************)
(* The timer on its own: one willAppear whose settings lack a credential,  *)
(* so that no fetch follows, and carry each refresh interval in turn.      *)
(***************************************************************************)
RefreshIntervals == (0 - MaxInterval)..MaxInterval

InitInterval ==
    /\ wsState = "OPEN"
    /\ imagesCache = WorkflowStatus
    /\ actions = <<>>
    /\ timers = {}
    /\ inflight = EmptyBag
    /\ appeared = {}
    /\ last = [event |-> "start", context |-> "", present |-> FALSE,
               keyDownTime |-> NoTime, refreshTimer |-> NoTimer, detail |-> ""]
    /\ eff = <<>>
    /\ displayed = [context \in Keys |-> ""]
    /\ probe \in {<<>>} \cup
                 {<<ActionSettings("", "acme", "widgets", "", interval)>> :
                     interval \in RefreshIntervals}
    /\ verdict = ""

NextInterval == \E context \in Keys : last.event = "start" /\ WillAppear(context, probe)

SpecInterval == InitInterval /\ [][NextInterval]_vars

(***************************************************************************)
(* Two keys side by side: the handlers of plugin.ts with the events of two *)
(* contexts, each configured for a repository of its own, one short and    *)
(* one long release, and a fetch that finds a run or fails.                *)
(***************************************************************************)
PairKeys == {"k1", "k2"}
PairSettings(context) ==
    IF context = "k1" THEN ActionSettings("tokA", "acme", "widgets", "", 30)
    ELSE ActionSettings("tokB", "acme", "gadgets", "ci.yml", 0)
PairReleaseTimes == {t + d : t \in PressTimes, d \in {0, LONG_PRESS_THRESHOLD}}
PairAnswers == { Answer("error", 0, "ECONNRESET", NoBody),
                 Response(200, Body(TRUE, 1, TRUE, <<WorkflowRun("completed", "success")>>)) }

InitPair ==
    /\ wsState = "CONNECTING"
    /\ imagesCache = WorkflowStatus
    /\ actions = <<>>
    /\ timers = {}
    /\ inflight = EmptyBag
    /\ appeared = {}
    /\ last = [event |-> "start", context |-> "", present |-> FALSE,
               keyDownTime |-> NoTime, refreshTimer |-> NoTimer, detail |-> ""]
    /\ eff = <<>>
    /\ displayed = [context \in PairKeys |-> ""]
    /\ probe = <<"", "">>
    /\ verdict = ""

NextPair ==
    \/ WsOpen
    \/ WsClose
    \/ \E context \in PairKeys : WillAppear(context, <<PairSettings(context)>>)
    \/ \E context \in PairKeys : WillDisappear(context)
    \/ \E context \in PairKeys, dateNow \in PressTimes : KeyDown(context, dateNow)
    \/ \E context \in PairKeys, dateNow \in PairReleaseTimes : KeyUp(context, dateNow)
    \/ \E context \in PairKeys : DidReceiveSettings(context, PairSettings(context))
    \/ \E timer \in timers : TimerFire(timer)
    \/ \E request \in BagToSet(inflight), answer \in PairAnswers :
          FetchResolve(request, answer)

SpecPair == InitPair /\ [][NextPair]_vars

(***************************************************************************)
(* Properties.                                                             *)
(***************************************************************************)
\* Positions of the last step's effects with a given op, and their number.
Ops(op) == {i \in 1..Len(eff) : eff[i].op = op}
Count(op) == Cardinality(Ops(op))

LiveTimersOf(context) == {t \in timers : t.context = context}

\* C1: every key has at most one live refresh timer (live: started by
\* setInterval and not yet cleared), whatever events were handled.
C1_AtMostOneTimerPerKey ==
    \A context \in Keys : Cardinality(LiveTimersOf(context)) <= 1

\* C2: the sessions that hold a live timer are as many as the keys whose
\* willAppear is not yet matched by a willDisappear, and after a
\* willDisappear of a key no live timer targets it and the map lacks it.
C2_TimersMatchUnmatchedAppears ==
    /\ Cardinality({context \in DOMAIN actions :
                      \E t \in timers : t.id = actions[context].refreshTimer})
         = Cardinality(appeared)
    /\ last.event = "willDisappear" =>
          /\ LiveTimersOf(last.context) = {}
          /\ last.context \notin DOMAIN actions

\* C3: a keyUp for a session with no outstanding keyDown is ignored: no
\* openUrl frame, no refresh, and the session stays without a press.
C3_UnmatchedKeyUpIgnored ==
    (last.event = "keyUp" /\ last.present /\ last.keyDownTime = NoTime) =>
        /\ Count("openUrl") = 0
        /\ Count("refreshStatus") = 0
        /\ Count("fetch") = 0
        /\ last.context \in DOMAIN actions
        /\ actions[last.context].keyDownTime = NoTime

\* C4: when a fetch resolves for a key that disappeared while the refresh
\* was suspended (and has not appeared again), no setImage and no setTitle
\* frame is sent for that key.
C4_ResultDroppedAfterDisappear ==
    (last.event = "fetchResolved" /\ last.context \notin DOMAIN actions) =>
        \A i \in Ops("setImage") \cup Ops("setTitle") :
            eff[i].context # last.context

\* C5: every fetch a step issues carries the credential, owner, repository
\* and workflow the session holds, and once didReceiveSettings was handled
\* for a session these are the ones of its payload: the refresh it starts,
\* and every later one, reads the new settings.
C5_RefreshReadsNewSettings ==
    /\ \A i \in Ops("fetch") :
          /\ eff[i].context \in DOMAIN actions
          /\ LET settings == actions[eff[i].context].settings
                 request == eff[i].a
             IN  /\ request.githubToken = settings.githubToken
                 /\ request.owner = settings.owner
                 /\ request.repo = settings.repo
                 /\ request.workflow = settings.workflow
    /\ (last.event = "didReceiveSettings" /\ last.present) =>
          /\ last.context \in DOMAIN actions
          /\ actions[last.context].settings = last.detail

\* C5 witness: didReceiveSettings replaced complete settings by other
\* complete ones while a fetch of the old ones was pending, and the refresh
\* it started issued a fetch.
C5_Witness ==
    /\ last.event = "didReceiveSettings"
    /\ last.present
    /\ Count("fetch") = 1
    /\ \E request \in BagToSet(inflight) :
          /\ request.stale
          /\ request.githubToken # last.detail.githubToken

\* C6: a fetch issued under settings that didReceiveSettings has since
\* replaced never writes its result to the display.
C6_StaleFetchNeverDisplayed ==
    (last.event = "fetchResolved" /\ last.detail.request.stale) =>
        Count("updateDisplay") = 0

\* C7: didReceiveSettings for an active session with a pending timer clears
\* the old timer exactly once, then starts exactly one timer whose period is
\* the new interval (60 s when none is configured), starts exactly one
\* refresh, on the new settings, and leaves the session active with exactly
\* one live timer.
C7_SettingsChangeRestartsTimer ==
    (last.event = "didReceiveSettings" /\ last.present
       /\ last.refreshTimer # NoTimer) =>
        /\ Count("clearInterval") = 1
        /\ Count("setInterval") = 1
        /\ \A i \in Ops("clearInterval"), j \in Ops("setInterval") :
              /\ i < j
              /\ eff[i].a = last.refreshTimer
              /\ eff[j].b = (IF last.detail.refreshInterval > 0
                             THEN last.detail.refreshInterval
                             ELSE DEFAULT_REFRESH_INTERVAL) * MS_PER_SECOND
        /\ Count("refreshStatus") = 1
        /\ \A i \in Ops("fetch") :
              eff[i].a.githubToken = last.detail.githubToken
        /\ last.context \in DOMAIN actions
        /\ actions[last.context].settings = last.detail
        /\ Cardinality(LiveTimersOf(last.context)) = 1

\* C8: a keyUp that follows a keyDown of an active session, elapsed ms after
\* it: with elapsed >= 500 exactly one openUrl frame is sent and no refresh
\* starts; with elapsed < 500 exactly one refresh starts and no openUrl
\* frame is sent.
C8_GestureByElapsed ==
    (last.event = "keyUp" /\ last.present /\ last.keyDownTime # NoTime) =>
        LET elapsed == last.detail - last.keyDownTime
        IN  IF elapsed >= 500
            THEN Count("openUrl") = 1 /\ Count("refreshStatus") = 0
            ELSE Count("refreshStatus") = 1 /\ Count("openUrl") = 0

\* C8 witness: a release exactly 500 ms after the press opened the URL.
C8_Witness ==
    /\ last.event = "keyUp"
    /\ last.present
    /\ last.keyDownTime # NoTime
    /\ last.detail - last.keyDownTime = 500
    /\ Count("openUrl") = 1

\* C9: a refresh that starts for a session whose credential, owner or
\* repository is empty issues no fetch and shows no "Loading...": it calls
\* the display once, with the unknown glyph and the title "Configure" (sent
\* as frames while the socket is open), whatever started the refresh.
C9_MissingSettingsShowConfigure ==
    \A i \in Ops("refreshStatus") :
        LET context == eff[i].context
        IN  (/\ context \in DOMAIN actions
             /\ \/ actions[context].settings.githubToken = ""
                \/ actions[context].settings.owner = ""
                \/ actions[context].settings.repo = "") =>
                /\ Count("fetch") = 0
                /\ Count("updateDisplay") = 1
                /\ \A j \in Ops("updateDisplay") :
                      /\ eff[j].context = context
                      /\ eff[j].a = "unknown"
                      /\ eff[j].b = "Configure"
                /\ \A j \in Ops("setTitle") : eff[j].a = "Configure"
                /\ \A j \in Ops("setImage") : eff[j].a = "unknown"
                /\ wsState = "OPEN" =>
                      /\ Count("setTitle") = 1
                      /\ Count("setImage") = (IF "unknown" \in imagesCache THEN 1 ELSE 0)

\* C9 witness: a timer fired for a session that has a credential and an
\* owner but no repository, and the display was told "Configure".
C9_Witness ==
    /\ last.event = "timerFire"
    /\ last.present
    /\ last.context \in DOMAIN actions
    /\ actions[last.context].settings.githubToken # ""
    /\ actions[last.context].settings.owner # ""
    /\ actions[last.context].settings.repo = ""
    /\ \E j \in Ops("setTitle") : eff[j].a = "Configure"

\* C10: the classification of (status, conclusion): completed/success is
\* success; completed with failure, cancelled or timed_out is failure;
\* completed with anything else is unknown; in_progress, queued, pending and
\* waiting are pending whatever the conclusion; every other status is
\* unknown.
C10_ClassificationTable ==
    verdict # "" =>
        LET status == probe[1]
            conclusion == probe[2]
        IN  /\ verdict \in WorkflowStatus
            /\ (status = "completed" /\ conclusion = "success") => verdict = "success"
            /\ (status = "completed"
                  /\ conclusion \in {"failure", "cancelled", "timed_out"}) =>
                  verdict = "failure"
            /\ (status = "completed"
                  /\ conclusion \notin {"success", "failure", "cancelled", "timed_out"}) =>
                  verdict = "unknown"
            /\ status \in {"in_progress", "queued", "pending", "waiting"} =>
                  verdict = "pending"
            /\ status \notin {"completed", "in_progress", "queued", "pending", "waiting"} =>
                  verdict = "unknown"

\* C10 witness: a completed run that timed out was classified a failure.
C10_Witness ==
    /\ probe = <<"completed", "timed_out">>
    /\ verdict = "failure"

(***************************************************************************)
(* Claims about the fetch (SpecFetch).                                     *)
(***************************************************************************)
\* The request and answer the fetch was applied to, and what it returned.
FetchDone == last.event = "fetchWorkflowStatus"
GeneralRunList == "https://github.com/" \o probe[1].owner \o "/" \o probe[1].repo
                      \o "/actions"

\* C11: the fetch never fails outward.  For a network error, a timeout, a
\* 401, a 404, any other non-200 status, a 200 whose body is not JSON and a
\* 200 whose body lacks the run list, it returns a result with status
\* unknown, a non-empty error of the class fixed for the outcome and the url
\* of the repository's general run list; and a result carries an error only
\* when its status is unknown.
C11_FetchNeverFailsOutward ==
    FetchDone =>
        LET answer == probe[2]
            result == verdict
            failed == \/ answer.kind \in {"error", "timeout"}
                      \/ answer.statusCode # 200
                      \/ ~answer.body.parses
                      \/ ~answer.body.hasRuns
            class ==
                CASE answer.kind = "error" -> result.error = "Network error: " \o answer.message
                  [] answer.kind = "timeout" -> result.error = "Request timeout"
                  [] answer.statusCode = 401 -> result.error = "Invalid GitHub token"
                  [] answer.statusCode = 404 ->
                         result.error = "Repository or workflow not found"
                  [] answer.statusCode # 200 ->
                         result.error = "GitHub API error: " \o ToString(answer.statusCode)
                  [] ~answer.body.parses ->
                         result.error = "Failed to parse GitHub response"
                  [] OTHER -> TRUE
        IN  /\ DOMAIN result = {"status", "name", "url", "branch", "error"}
            /\ result.status \in WorkflowStatus
            /\ failed => /\ result.status = "unknown"
                         /\ result.error # ""
                         /\ class
                         /\ result.url = GeneralRunList
            /\ result.error # "" => result.status = "unknown"

\* Every failing outcome has been answered, the list-less 200 with a
\* non-zero total_count among them.
C11_Witness ==
    /\ FetchDone
    /\ probe[2].kind = "response" /\ probe[2].statusCode = 200
    /\ probe[2].body.parses /\ ~probe[2].body.hasRuns
    /\ probe[2].body.total_count = 2
    /\ verdict.status = "unknown" /\ verdict.error # ""

\* C12: when the provider answers 200 with zero runs (total_count 0 or an
\* empty run list), with or without a workflow filter, the result has status
\* unknown, the error "No workflow runs found", an empty branch and the url
\* of the repository's general run list, never the url of a run.
C12_ZeroRunsResult ==
    FetchDone =>
        LET answer == probe[2]
            body == answer.body
            zeroRuns == /\ answer.kind = "response" /\ answer.statusCode = 200
                        /\ body.parses
                        /\ \/ body.total_count = 0
                           \/ body.hasRuns /\ body.workflow_runs = <<>>
        IN  zeroRuns => /\ verdict.status = "unknown"
                        /\ verdict.error = "No workflow runs found"
                        /\ verdict.branch = ""
                        /\ verdict.url = GeneralRunList
                        /\ \A run \in LatestRuns : verdict.url # run.html_url

\* An empty run list under a non-zero total_count, with a workflow filter.
C12_Witness ==
    /\ FetchDone
    /\ probe[1].workflow # ""
    /\ probe[2].kind = "response" /\ probe[2].statusCode = 200
    /\ probe[2].body.parses /\ probe[2].body.hasRuns
    /\ probe[2].body.workflow_runs = <<>> /\ probe[2].body.total_count = 1
    /\ verdict.error = "No workflow runs found"

(***************************************************************************)
(* Claims about the sessions (Spec), continued.                            *)
(***************************************************************************)
\* A willAppear with complete settings and no workflow filter issues one
\* fetch at once, and a fetch without workflow filter that the provider
\* answers with total_count = 0 ends in one display update with the unknown
\* glyph and the given title.
ZeroRunsShownAs(title) ==
    /\ (/\ last.event = "willAppear"
        /\ last.detail # <<>>
        /\ ~SettingsMissing(last.detail[1])
        /\ last.detail[1].workflow = "") =>
            /\ Count("fetch") = 1
            /\ \A i \in Ops("fetch") :
                  /\ eff[i].context = last.context
                  /\ eff[i].a.owner = last.detail[1].owner
                  /\ eff[i].a.repo = last.detail[1].repo
                  /\ eff[i].a.workflow = ""
    /\ (/\ last.event = "fetchResolved"
        /\ last.detail.request.workflow = ""
        /\ last.detail.answer.kind = "response"
        /\ last.detail.answer.statusCode = 200
        /\ last.detail.answer.body.parses
        /\ last.detail.answer.body.total_count = 0) =>
            /\ Count("updateDisplay") = 1
            /\ \A j \in Ops("updateDisplay") :
                  /\ eff[j].context = last.context
                  /\ eff[j].a = "unknown"
                  /\ eff[j].b = title
            /\ \A j \in Ops("setTitle") : eff[j].a = title
            /\ \A j \in Ops("setImage") : eff[j].a = "unknown"

\* C13: after a willAppear with complete settings and no workflow filter a
\* fetch is issued at once, and if the provider returns total_count = 0 the
\* display ends with the unknown glyph and the title "Unknown".
C13_ZeroRunsShownUnknown == ZeroRunsShownAs("Unknown")

\* C13, amended: as above, but the display ends with the unknown glyph and
\* the title "Error", because the zero-runs result carries an error.
C13_ZeroRunsShownError == ZeroRunsShownAs("Error")

\* The fetch of a session without workflow filter was answered with
\* total_count = 0 and the title frame went out.
C13_Witness ==
    /\ last.event = "fetchResolved"
    /\ last.present
    /\ last.detail.request.workflow = ""
    /\ last.detail.answer.statusCode = 200
    /\ last.detail.answer.body.parses
    /\ last.detail.answer.body.total_count = 0
    /\ \E j \in Ops("setTitle") : eff[j].a = "Error"

\* The number of refreshStatus calls of a key suspended at their await.
InFlightOf(context) ==
    LET held == {r \in BagToSet(inflight) : r.context = context}
        RECURSIVE sum(_)
        sum(rs) == IF rs = {} THEN 0
                   ELSE LET r == CHOOSE q \in rs : TRUE
                        IN  inflight[r] + sum(rs \ {r})
    IN  sum(held)

\* C14: in every reachable state each session has at most one refresh in
\* flight, whatever the interleaving of timer fires, short presses,
\* settings-changed and appear events with pending fetches.
C14_AtMostOneRefreshInFlight ==
    \A context \in DOMAIN actions : InFlightOf(context) <= 1

(***************************************************************************)
(* Claim about the timer (SpecInterval).                                   *)
(***************************************************************************)
\* C15: for every settings value a session can receive, the period of the
\* timer started for it is the configured refresh interval in seconds, is 60
\* seconds when no interval is configured, and is never less than 1 second.
C15_TimerPeriod ==
    \A t \in timers :
        LET configured == probe # <<>> /\ probe[1].refreshInterval # 0
        IN  /\ configured /\ probe[1].refreshInterval >= 1 =>
                  t.period = probe[1].refreshInterval * 1000
            /\ ~configured => t.period = 60 * 1000
            /\ t.period >= 1000

\* C16: a long gesture (a keyUp 500 ms or more after the keyDown of its
\* session) opens the canonical run url: the url of the openUrl frame is the url of the result the session displayed last, the url of the
\* run when one was resolved and the repository's general run list
\* otherwise.
C16_LongPressOpensDisplayedUrl ==
    (/\ last.event = "keyUp"
     /\ last.context \in DOMAIN actions
     /\ last.keyDownTime # NoTime
     /\ last.detail - last.keyDownTime >= LONG_PRESS_THRESHOLD) =>
        \A i \in Ops("openUrl") :
            eff[i].a = IF displayed[last.context] # ""
                       THEN displayed[last.context]
                       ELSE RepoActionsUrl(actions[last.context].settings.owner,
                                           actions[last.context].settings.repo)

\* C17: a willAppear for a key creates the session with the settings of the
\* event (the defaults, with empty credential, owner and repository and
\* interval 60, when the event carries none), starts its timer and starts
\* exactly one refresh in the same callback, before any timer can fire; the
\* session is in the map from then until its willDisappear.
C17_AppearCreatesSession ==
    /\ last.event = "willAppear" =>
          LET context == last.context
          IN  /\ context \in DOMAIN actions
              /\ actions[context].context = context
              /\ actions[context].settings =
                     IF last.detail # <<>> THEN last.detail[1]
                     ELSE [githubToken |-> "", owner |-> "", repo |-> "",
                           workflow |-> "", refreshInterval |-> 60]
              /\ Count("setInterval") = 1
              /\ \E t \in timers : /\ t.context = context
                                    /\ t.id = actions[context].refreshTimer
              /\ Count("refreshStatus") = 1
              /\ \A i \in Ops("refreshStatus") :
                    /\ eff[i].context = context
                    /\ \A j \in Ops("setInterval") : j < i
    /\ DOMAIN actions = appeared

\* A willAppear without settings created a session with the defaults, its
\* timer and its refresh.
C17_Witness ==
    /\ last.event = "willAppear"
    /\ last.detail = <<>>
    /\ last.context \in DOMAIN actions
    /\ actions[last.context].settings.refreshInterval = 60
    /\ Count("refreshStatus") = 1
    /\ Count("setInterval") = 1

(***************************************************************************)
(* Claim about the sessions when every fetch settles (SpecLive).           *)
(***************************************************************************)
FinalTitles == {"Success", "Failed", "Running", "Unknown", "Error"}

\* A refreshStatus call of the last step for a session with complete
\* settings made one display update, pending with "Loading...", and then
\* issued its fetch.
StartsWithLoading ==
    \A i \in Ops("refreshStatus") :
        LET context == eff[i].context
        IN  (context \in DOMAIN actions /\ ~SettingsMissing(actions[context].settings)) =>
                /\ Count("updateDisplay") = 1
                /\ Count("fetch") = 1
                /\ \A j \in Ops("updateDisplay") :
                      /\ i < j
                      /\ eff[j].context = context
                      /\ eff[j].a = "pending"
                      /\ eff[j].b = "Loading..."
                      /\ \A k \in Ops("fetch") : j < k /\ eff[k].context = context

\* The last step resumed a refresh with the arguments of r and made its one
\* final display update.
FinalUpdate(r) ==
    /\ last.event = "fetchResolved"
    /\ [last.detail.request EXCEPT !.stale = FALSE] = r
    /\ Count("updateDisplay") = 1
    /\ \A j \in Ops("updateDisplay") :
          eff[j].context = r.context /\ eff[j].b \in FinalTitles

\* C19: every refresh that starts for a session in the map with complete
\* settings first sets the display to pending with "Loading..." and, the
\* fetch settling, is followed by exactly one final display update of that
\* refresh, titled Success, Failed, Running, Unknown or Error: no refresh is
\* left at "Loading..." forever.
C19_LoadingLeadsToFinalUpdate ==
    /\ []StartsWithLoading
    /\ [](last.event = "fetchResolved" =>
             FinalUpdate([last.detail.request EXCEPT !.stale = FALSE]))
    /\ \A r \in Requests : (Suspended(r) # {}) ~> FinalUpdate(r)

\* A refresh was suspended while its session's settings were replaced, and
\* then made its final update.
C19_Witness ==
    /\ last.event = "fetchResolved"
    /\ last.detail.request.stale
    /\ \E r \in Requests : FinalUpdate(r)
    /\ \E j \in Ops("setTitle") : eff[j].a \in FinalTitles

(***************************************************************************)
(* Claims about the sessions (Spec), continued.                            *)
(***************************************************************************)
\* The status a title goes with.
GlyphOf(title) ==
    CASE title = "Success" -> "success"
      [] title = "Failed" -> "failure"
      [] title \in {"Running", "Loading..."} -> "pending"
      [] title \in {"Unknown", "Error", "Configure"} -> "unknown"
      [] OTHER -> "none"

\* C20: every display update pairs a glyph with a title of Success, Failed,
\* Running, Unknown, Error, Loading... and Configure: Success only with the
\* success glyph, Failed only with failure, Running and Loading... only with
\* pending, and Unknown, Error and Configure only with unknown; the frames
\* sent carry that glyph and that title; and a fetched run that is completed
\* with conclusion success is displayed as success, "Success".
C20_GlyphMatchesTitle ==
    /\ \A j \in Ops("updateDisplay") : eff[j].a = GlyphOf(eff[j].b)
    /\ \A j \in Ops("updateDisplay") :
          \/ j + 1 \in Ops("setTitle") /\ eff[j + 1].a = eff[j].b
          \/ /\ j + 1 \in Ops("setImage") /\ eff[j + 1].a = eff[j].a
             /\ j + 2 \in Ops("setTitle") /\ eff[j + 2].a = eff[j].b
          \/ wsState # "OPEN"
    /\ last.event = "fetchResolved" =>
          LET answer == last.detail.answer
              run == answer.body.workflow_runs[1]
          IN  (/\ answer.kind = "response" /\ answer.statusCode = 200
               /\ answer.body.parses /\ answer.body.total_count # 0
               /\ answer.body.hasRuns /\ answer.body.workflow_runs # <<>>
               /\ run.status = "completed" /\ run.conclusion = "success") =>
                  /\ Count("updateDisplay") = 1
                  /\ \A j \in Ops("updateDisplay") :
                        eff[j].a = "success" /\ eff[j].b = "Success"

\* A run completed with success was fetched and the frames of the success
\* glyph and the title "Success" went out.
C20_Witness ==
    /\ last.event = "fetchResolved"
    /\ last.detail.answer.statusCode = 200
    /\ last.detail.answer.body.workflow_runs # <<>>
    /\ last.detail.answer.body.workflow_runs[1].conclusion = "success"
    /\ \E j \in Ops("setImage") : eff[j].a = "success"
    /\ \E j \in Ops("setTitle") : eff[j].a = "Success"

(***************************************************************************)
(* Claim about two sessions (SpecPair).                                    *)
(***************************************************************************)
\* The step handled an event of last'.context and left key other alone: its
\* instance (settings, refreshTimer, keyDownTime) and its live timers are
\* as before, and no setImage or setTitle frame is addressed to it.
LeftAlone(other) ==
    /\ (other \in DOMAIN actions') = (other \in DOMAIN actions)
    /\ other \in DOMAIN actions => actions'[other] = actions[other]
    /\ {t \in timers' : t.context = other} = {t \in timers : t.context = other}
    /\ \A i \in 1..Len(eff') :
          eff'[i].op \in {"setImage", "setTitle"} => eff'[i].context # other

\* While a refresh of key context is suspended at its fetch, the presses,
\* the releases and the timers of key other can be handled (a handler that
\* refreshes needs room among the MaxInFlight suspended calls of the model).
StillServiced(context, other) ==
    (/\ \E r \in BagToSet(inflight) : r.context = context
     /\ wsState = "OPEN") =>
        /\ \A dateNow \in PressTimes : ENABLED KeyDown(other, dateNow)
        /\ BagCardinality(inflight) < MaxInFlight =>
              /\ \A dateNow \in PairReleaseTimes : ENABLED KeyUp(other, dateNow)
              /\ \A timer \in timers : timer.context = other => ENABLED TimerFire(timer)

\* C21: sessions are independent.  Handling an event of one key (willAppear,
\* willDisappear, didReceiveSettings, keyDown, keyUp, a timer fire, the
\* resolution of a fetch) leaves every other key's settings, timer and
\* keyDownTime unchanged and sends no display frame addressed to another
\* key; and while a refresh of one key awaits its fetch, the gesture events
\* and timer fires of the other keys are still handled.
C21_SessionsIndependent ==
    /\ [][\A other \in PairKeys \ {last'.context} : LeftAlone(other)]_vars
    /\ [](\A context \in PairKeys : \A other \in PairKeys \ {context} :
             StillServiced(context, other))

\* While the refresh of k1 was suspended, the timer of k2 fired and k2
\* started a refresh of its own; k1's session is as it was.
C21_Witness ==
    /\ last.event = "timerFire"
    /\ last.context = "k2"
    /\ \E r \in BagToSet(inflight) : r.context = "k1"
    /\ \E i \in Ops("fetch") : eff[i].context = "k2"
    /\ "k1" \in DOMAIN actions
    /\ actions["k1"].settings = PairSettings("k1")
    /\ actions["k1"].keyDownTime # NoTime

(***************************************************************************)
(* Claims about the sessions (Spec), continued.                            *)
(***************************************************************************)
\* C22: an event addressed to a key that is not in the map is inert: a
\* keyDown, keyUp, didReceiveSettings, willDisappear or timer fire for such
\* a key creates no session, starts no timer, issues no fetch and sends no
\* setImage, setTitle or openUrl frame; only a willAppear adds a key.
C22_AbsentKeyInert ==
    /\ (/\ last.event \in {"keyDown", "keyUp", "didReceiveSettings",
                            "willDisappear", "timerFire"}
        /\ ~last.present) =>
            /\ last.context \notin DOMAIN actions
            /\ Count("setInterval") = 0
            /\ Count("fetch") = 0
            /\ Count("updateDisplay") = 0
            /\ Count("setImage") = 0
            /\ Count("setTitle") = 0
            /\ Count("openUrl") = 0
    /\ (last.event # "willAppear" /\ ~last.present) => last.context \notin DOMAIN actions

\* A timer that outlived its session fired for the key that is no longer in
\* the map.
C22_Witness ==
    /\ last.event = "timerFire"
    /\ ~last.present
    /\ last.detail \in timers
    /\ Count("refreshStatus") = 1

====
